---- MODULE Spec2Model ----
(***************************************************************************)
(* A model of dashboard.py: one Streamlit script that, on every rerun,     *)
(* loads the selected strategy's pickled portfolio (memoised by            *)
(* st.cache_resource), derives the trade log, the equity value, the        *)
(* returns and the price frame, and then emits three charts and a metrics  *)
(* panel.  A rerun executes the script top to bottom in a fresh namespace; *)
(* an uncaught exception stops it where it is raised, and what was emitted *)
(* before stays on the page.                                               *)
(***************************************************************************)
EXTENDS Integers, Sequences, FiniteSets, TLC

VARIABLES
    disk,       \* path -> the artifact stored there
    cache,      \* st.cache_resource: strategy name -> cached portfolio
    pc,         \* the script line the running pass is at
    selected,   \* the sidebar radio's value
    bound,      \* the names the running script has assigned so far
    pf, trades, value, returns, ohlc,
    fig_price,  \* the traces added to the price figure, in order
    has_entry, has_exit, n, step, tsub,
    shown,      \* the charts st.plotly_chart has emitted in this pass
    error,      \* the exception that stopped this pass ("" if none)
    storageRead,\* whether the last load_portfolio call ran vbt.load
    succeeded   \* history: the strategies whose load has succeeded

vars == <<disk, cache, pc, selected, bound, pf, trades, value, returns, ohlc,
          fig_price, has_entry, has_exit, n, step, tsub, shown, error,
          storageRead, succeeded>>

---------------------------------------------------------------------------
(* Bounds of the model *)

\* the longest equity value series
MaxLen == 3
\* the longest trade log
MaxTrades == 3601
\* trade-log lengths are taken within Window of every multiple of the threshold
Window == 10
\* the trade-log length of the portfolios of the whole-pass specifications
FewTrades == 3

---------------------------------------------------------------------------
(* Program constants *)

strategies == <<"SAF1", "SAF2", "SAF3">>

Strategies == {strategies[i] : i \in DOMAIN strategies}

\* name.lower() inside the f-string of load_portfolio
Lower(name) ==
    CASE name = "SAF1" -> "saf1"
      [] name = "SAF2" -> "saf2"
      [] name = "SAF3" -> "saf3"

PathOf(name) == "data/" \o Lower(name) \o "_backtest.pkl"

Paths == {PathOf(s) : s \in Strategies}

MarkerThreshold == 1200

PriceHeight == 360

ChartHeight == 340

PriceAttrs == <<"open", "high", "low", "close">>

OhlcColumns == {"Open", "High", "Low", "Close"}

EntryColumns == {"Entry Index", "Avg Entry Price"}

ExitColumns == {"Exit Index", "Avg Exit Price"}

---------------------------------------------------------------------------
(* The pickled objects.  A portfolio is known to the script only through   *)
(* the attributes it exposes: present holds their names, value the equity  *)
(* curve, prices the four price series, columns and n the shape of         *)
(* trades.records_readable.                                                *)

Absent == [kind |-> "absent"]

Corrupt == [kind |-> "corrupt"]

NoEntry == [kind |-> "none"]

PriceSeries ==
    [open |-> <<100, 105>>, high |-> <<112, 111>>,
     low |-> <<95, 97>>, close |-> <<108, 99>>]

Portfolio(present, val, columns, count) ==
    [kind |-> "portfolio", present |-> present, value |-> val,
     prices |-> PriceSeries, columns |-> columns, n |-> count]

hasattr(obj, attr) == attr \in obj.present

\* pf.trades.records_readable: the trade log as a table, one row per trade,
\* each row named by its position in the log
records_readable(obj) ==
    [columns |-> obj.columns, rows |-> [i \in 1..obj.n |-> i - 1]]

NoTable == [columns |-> {}, rows |-> <<>>]

NoFrame == [c \in {} |-> <<>>]

---------------------------------------------------------------------------
(* Float arithmetic of the returns line, on exact fractions num/den in     *)
(* lowest terms with den > 0; den = 0 stands for the non-finite results of *)
(* a division by zero (num 1: inf, -1: -inf, 0: NaN).                      *)

Abs(x) == IF x < 0 THEN -x ELSE x

Sign(x) == IF x < 0 THEN -1 ELSE IF x > 0 THEN 1 ELSE 0

RECURSIVE GCD(_, _)
GCD(a, b) == IF b = 0 THEN a ELSE GCD(b, a % b)

\* a / b
TrueDiv(a, b) ==
    IF b = 0
    THEN [num |-> Sign(a), den |-> 0]
    ELSE LET g == GCD(Abs(a), Abs(b))
         IN  [num |-> Sign(b) * Sign(a) * (Abs(a) \div g), den |-> Abs(b) \div g]

\* q - 1
MinusOne(q) ==
    IF q.den = 0 THEN q ELSE [num |-> q.num - q.den, den |-> q.den]

\* faulty variant: each value over the one before it (a period return)
ReturnsOverPrevious(val) ==
    [i \in DOMAIN val |->
        MinusOne(TrueDiv(val[i], val[IF i = 1 THEN 1 ELSE i - 1]))]

\* returns = value / value.iloc[0] - 1
NormalizedReturns(val) ==
    [i \in DOMAIN val |-> MinusOne(TrueDiv(val[i], val[1]))]

---------------------------------------------------------------------------
(* The price frame *)

AllPriceAttrs(obj) ==
    \A i \in DOMAIN PriceAttrs : hasattr(obj, PriceAttrs[i])

\* faulty variant: the close-only test ahead of the four-attribute test
PriceFrameCloseFirst(obj) ==
    IF hasattr(obj, "close")
    THEN [c \in {"Close"} |-> obj.prices.close]
    ELSE [c \in {"Close"} |-> obj.value]

\* the if / elif / else that builds ohlc
PriceFrame(obj) ==
    IF AllPriceAttrs(obj)
    THEN [c \in OhlcColumns |->
            CASE c = "Open" -> obj.prices.open
              [] c = "High" -> obj.prices.high
              [] c = "Low" -> obj.prices.low
              [] c = "Close" -> obj.prices.close]
    ELSE IF hasattr(obj, "close")
    THEN [c \in {"Close"} |-> obj.prices.close]
    ELSE [c \in {"Close"} |-> obj.value]

\* faulty variant: the column test spelt with the attribute names, so never true
PriceTraceLowercase(frame) ==
    IF {"open", "high", "low", "close"} \subseteq DOMAIN frame
    THEN [kind |-> "candlestick", name |-> "Price",
          open |-> frame["open"], high |-> frame["high"],
          low |-> frame["low"], close |-> frame["close"]]
    ELSE [kind |-> "line", name |-> "Close", y |-> frame["Close"]]

\* the first trace of fig_price
PriceTrace(frame) ==
    IF OhlcColumns \subseteq DOMAIN frame
    THEN [kind |-> "candlestick", name |-> "Price",
          open |-> frame["Open"], high |-> frame["High"],
          low |-> frame["Low"], close |-> frame["Close"]]
    ELSE [kind |-> "line", name |-> "Close", y |-> frame["Close"]]

---------------------------------------------------------------------------
(* Trade markers *)

HasEntry(table) == EntryColumns \subseteq table.columns

\* faulty variant: the exit test copied from the entry test
HasExitFromEntry(table) == EntryColumns \subseteq table.columns

HasExit(table) == ExitColumns \subseteq table.columns

Max(a, b) == IF a >= b THEN a ELSE b

\* faulty variant: the stride rounded up
StrideCeil(count) ==
    Max(1, (count + MarkerThreshold - 1) \div MarkerThreshold)

\* step = max(1, n // 1200)
Stride(count) == Max(1, count \div MarkerThreshold)

\* table.iloc[::k]: the rows at positions 0, k, 2k, ...
ILocEvery(table, k) ==
    LET kept == {i \in 1..Len(table.rows) : (i - 1) % k = 0}
    IN  [columns |-> table.columns,
         rows |-> [j \in 1..Cardinality(kept) |-> table.rows[(j - 1) * k + 1]]]

\* faulty variant: the two arms of the conditional exchanged
DownsampleInverted(table, k) == IF k > 1 THEN table ELSE ILocEvery(table, k)

\* tsub = trades.iloc[::step] if step > 1 else trades
Downsample(table, k) == IF k > 1 THEN ILocEvery(table, k) ELSE table

\* go.Scattergl(x=tsub[xcol], y=tsub[ycol], mode="markers", name=...)
MarkerTrace(name, table, xcol, ycol) ==
    [kind |-> "markers", name |-> name, x |-> xcol, y |-> ycol,
     rows |-> table.rows]

---------------------------------------------------------------------------
(* The memoised loader *)

\* vbt.load(path): the unpickled object, or the exception it raises
vbt_load(files, path) ==
    CASE files[path].kind = "absent" ->
            [raised |-> "FileNotFoundError", result |-> NoEntry]
      [] files[path].kind = "corrupt" ->
            [raised |-> "UnpicklingError", result |-> NoEntry]
      [] OTHER -> [raised |-> "", result |-> files[path]]

\* faulty variant: the decorator left out, so every call runs the body
load_portfolio_uncached(memo, files, name) ==
    LET got == vbt_load(files, PathOf(name))
    IN  [raised |-> got.raised, result |-> got.result,
         memo |-> IF got.raised = "" THEN [memo EXCEPT ![name] = got.result]
                  ELSE memo,
         read |-> TRUE]

\* @st.cache_resource def load_portfolio(name): a call whose argument has a
\* cached result returns it without running the body; otherwise the body
\* runs and its result is cached, unless it raises
load_portfolio(memo, files, name) ==
    IF memo[name] # NoEntry
    THEN [raised |-> "", result |-> memo[name], memo |-> memo, read |-> FALSE]
    ELSE LET got == vbt_load(files, PathOf(name))
         IN  [raised |-> got.raised, result |-> got.result,
              memo |-> IF got.raised = "" THEN [memo EXCEPT ![name] = got.result]
                       ELSE memo,
              read |-> TRUE]

---------------------------------------------------------------------------
(* The script, line by line *)

\* faulty variant: the price chart built and shown before the base data is derived
ScriptChartFirst ==
    <<"load", "ohlc", "price", "show_price", "trades", "value", "returns",
      "markers", "entry", "exit", "cumulative_returns", "drawdowns", "metrics">>

\* faulty variant: the drawdown section ahead of the cumulative-returns section
ScriptDrawdownsFirst ==
    <<"load", "trades", "value", "returns", "ohlc", "price", "markers",
      "entry", "exit", "show_price", "drawdowns", "cumulative_returns",
      "metrics">>

\* the statements of the script in the order they run
Script ==
    <<"load", "trades", "value", "returns", "ohlc", "price", "markers",
      "entry", "exit", "show_price", "cumulative_returns", "drawdowns",
      "metrics">>

IndexOf(line) == CHOOSE i \in DOMAIN Script : Script[i] = line

Following(line) ==
    IF IndexOf(line) = Len(Script) THEN "done" ELSE Script[IndexOf(line) + 1]

NoError == [type |-> "", at |-> ""]

Halted == pc \in {"idle", "done", "aborted"}

\* faulty variant: the guard asks for both column pairs
NeedsDownsampleBoth(entry, exit) == entry /\ exit

\* the guard of the block that assigns n, step and tsub
NeedsDownsample(entry, exit) == entry \/ exit

\* apply_layout(fig, height) and st.plotly_chart(fig)
Chart(name, height) == [chart |-> name, height |-> height]

store == <<disk, cache, storageRead, succeeded>>

extracted == <<pf, trades, value, returns, ohlc>>

markers == <<has_entry, has_exit, n, step, tsub>>

\* an uncaught exception ends the pass at the line that raised it
Raise(exc) ==
    /\ pc' = "aborted"
    /\ error' = [type |-> exc, at |-> pc]

Continue ==
    /\ pc' = Following(pc)
    /\ error' = error

\* a widget interaction or page load: the script reruns from the top
Rerun(s) ==
    /\ Halted
    /\ pc' = Script[1]
    /\ selected' = s
    /\ bound' = {}
    /\ pf' = NoEntry
    /\ trades' = NoTable
    /\ value' = <<>>
    /\ returns' = <<>>
    /\ ohlc' = NoFrame
    /\ fig_price' = <<>>
    /\ has_entry' = FALSE
    /\ has_exit' = FALSE
    /\ n' = 0
    /\ step' = 0
    /\ tsub' = NoTable
    /\ shown' = <<>>
    /\ error' = NoError
    /\ storageRead' = FALSE
    /\ UNCHANGED <<disk, cache, succeeded>>

\* pf = load_portfolio(selected)
Load ==
    /\ pc = "load"
    /\ LET r == load_portfolio(cache, disk, selected)
       IN  /\ cache' = r.memo
           /\ storageRead' = r.read
           /\ IF r.raised # ""
              THEN /\ Raise(r.raised)
                   /\ UNCHANGED <<pf, bound, succeeded>>
              ELSE /\ Continue
                   /\ pf' = r.result
                   /\ bound' = bound \cup {"pf"}
                   /\ succeeded' = succeeded \cup {selected}
    /\ UNCHANGED <<disk, selected, trades, value, returns, ohlc, fig_price,
                   markers, shown>>

\* trades = pf.trades.records_readable
ExtractTrades ==
    /\ pc = "trades"
    /\ IF "pf" \notin bound THEN Raise("NameError") /\ UNCHANGED <<trades, bound>>
       ELSE IF ~hasattr(pf, "trades")
       THEN Raise("AttributeError") /\ UNCHANGED <<trades, bound>>
       ELSE /\ Continue
            /\ trades' = records_readable(pf)
            /\ bound' = bound \cup {"trades"}
    /\ UNCHANGED <<store, selected, pf, value, returns, ohlc, fig_price,
                   markers, shown>>

\* value = pf.value
ExtractValue ==
    /\ pc = "value"
    /\ IF "pf" \notin bound THEN Raise("NameError") /\ UNCHANGED <<value, bound>>
       ELSE IF ~hasattr(pf, "value")
       THEN Raise("AttributeError") /\ UNCHANGED <<value, bound>>
       ELSE /\ Continue
            /\ value' = pf.value
            /\ bound' = bound \cup {"value"}
    /\ UNCHANGED <<store, selected, pf, trades, returns, ohlc, fig_price,
                   markers, shown>>

\* returns = value / value.iloc[0] - 1
ComputeReturns ==
    /\ pc = "returns"
    /\ IF "value" \notin bound
       THEN Raise("NameError") /\ UNCHANGED <<returns, bound>>
       ELSE IF Len(value) = 0
       THEN Raise("IndexError") /\ UNCHANGED <<returns, bound>>
       ELSE /\ Continue
            /\ returns' = NormalizedReturns(value)
            /\ bound' = bound \cup {"returns"}
    /\ UNCHANGED <<store, selected, pf, trades, value, ohlc, fig_price,
                   markers, shown>>

\* the if / elif / else that assigns ohlc
BuildOhlc ==
    /\ pc = "ohlc"
    /\ IF "pf" \notin bound THEN Raise("NameError") /\ UNCHANGED <<ohlc, bound>>
       ELSE IF ~AllPriceAttrs(pf) /\ ~hasattr(pf, "close") /\ ~hasattr(pf, "value")
       THEN Raise("AttributeError") /\ UNCHANGED <<ohlc, bound>>
       ELSE /\ Continue
            /\ ohlc' = PriceFrame(pf)
            /\ bound' = bound \cup {"ohlc"}
    /\ UNCHANGED <<store, selected, pf, trades, value, returns, fig_price,
                   markers, shown>>

\* fig_price = go.Figure() and its price trace
ComposePrice ==
    /\ pc = "price"
    /\ IF "ohlc" \notin bound
       THEN Raise("NameError") /\ UNCHANGED <<fig_price, bound>>
       ELSE /\ Continue
            /\ fig_price' = <<PriceTrace(ohlc)>>
            /\ bound' = bound \cup {"fig_price"}
    /\ UNCHANGED <<store, selected, extracted, markers, shown>>

\* has_entry, has_exit and, under their guard, n, step and tsub
PrepareMarkers ==
    /\ pc = "markers"
    /\ IF "trades" \notin bound
       THEN /\ Raise("NameError")
            /\ UNCHANGED <<markers, bound>>
       ELSE /\ Continue
            /\ has_entry' = HasEntry(trades)
            /\ has_exit' = HasExit(trades)
            /\ IF NeedsDownsample(HasEntry(trades), HasExit(trades))
               THEN /\ n' = Len(trades.rows)
                    /\ step' = Stride(Len(trades.rows))
                    /\ tsub' = Downsample(trades, Stride(Len(trades.rows)))
                    /\ bound' = bound \cup {"has_entry", "has_exit", "n", "step", "tsub"}
               ELSE /\ UNCHANGED <<n, step, tsub>>
                    /\ bound' = bound \cup {"has_entry", "has_exit"}
    /\ UNCHANGED <<store, selected, extracted, fig_price, shown>>

\* if has_entry: fig_price.add_trace(go.Scattergl(x=tsub[...], ...))
EntryMarkers ==
    /\ pc = "entry"
    /\ IF {"has_entry", "fig_price"} \ bound # {}
       THEN Raise("NameError") /\ UNCHANGED fig_price
       ELSE IF ~has_entry
       THEN Continue /\ UNCHANGED fig_price
       ELSE IF "tsub" \notin bound
       THEN Raise("NameError") /\ UNCHANGED fig_price
       ELSE /\ Continue
            /\ fig_price' = Append(fig_price,
                   MarkerTrace("Entry", tsub, "Entry Index", "Avg Entry Price"))
    /\ UNCHANGED <<store, selected, extracted, markers, bound, shown>>

\* if has_exit: fig_price.add_trace(go.Scattergl(x=tsub[...], ...))
ExitMarkers ==
    /\ pc = "exit"
    /\ IF {"has_exit", "fig_price"} \ bound # {}
       THEN Raise("NameError") /\ UNCHANGED fig_price
       ELSE IF ~has_exit
       THEN Continue /\ UNCHANGED fig_price
       ELSE IF "tsub" \notin bound
       THEN Raise("NameError") /\ UNCHANGED fig_price
       ELSE /\ Continue
            /\ fig_price' = Append(fig_price,
                   MarkerTrace("Exit", tsub, "Exit Index", "Avg Exit Price"))
    /\ UNCHANGED <<store, selected, extracted, markers, bound, shown>>

\* apply_layout(fig_price, height=360); st.plotly_chart(fig_price)
ShowPrice ==
    /\ pc = "show_price"
    /\ IF "fig_price" \notin bound
       THEN Raise("NameError") /\ UNCHANGED shown
       ELSE /\ Continue
            /\ shown' = Append(shown, Chart("price", PriceHeight))
    /\ UNCHANGED <<store, selected, extracted, fig_price, markers, bound>>

\* fig_returns = pf.plot_cumulative_returns(), themed and shown; the routine
\* is the portfolio's own and may raise
ShowCumulativeReturns ==
    /\ pc = "cumulative_returns"
    /\ IF "pf" \notin bound
       THEN Raise("NameError") /\ UNCHANGED <<shown, bound>>
       ELSE \/ /\ Raise("PlottingError")
               /\ UNCHANGED <<shown, bound>>
            \/ /\ Continue
               /\ shown' = Append(shown, Chart("cumulative_returns", ChartHeight))
               /\ bound' = bound \cup {"fig_returns"}
    /\ UNCHANGED <<store, selected, extracted, fig_price, markers>>

\* fig_dd = pf.plot_drawdowns(), themed and shown
ShowDrawdowns ==
    /\ pc = "drawdowns"
    /\ IF "pf" \notin bound
       THEN Raise("NameError") /\ UNCHANGED <<shown, bound>>
       ELSE \/ /\ Raise("PlottingError")
               /\ UNCHANGED <<shown, bound>>
            \/ /\ Continue
               /\ shown' = Append(shown, Chart("drawdowns", ChartHeight))
               /\ bound' = bound \cup {"fig_dd"}
    /\ UNCHANGED <<store, selected, extracted, fig_price, markers>>

\* tab2: the three headline metrics and pf.stats(...), then the footer
ShowMetrics ==
    /\ pc = "metrics"
    /\ IF "pf" \notin bound
       THEN Raise("NameError") /\ UNCHANGED bound
       ELSE \/ /\ Raise("StatsError")
               /\ UNCHANGED bound
            \/ /\ Continue
               /\ bound' = bound \cup {"stats"}
    /\ UNCHANGED <<store, selected, extracted, fig_price, markers, shown>>

\* the backtest job rewrites (or removes) an artifact under data/
ReplaceArtifact(path, artifact) ==
    /\ disk[path] # artifact
    /\ disk' = [disk EXCEPT ![path] = artifact]
    /\ UNCHANGED <<cache, pc, selected, bound, extracted, fig_price, markers,
                   shown, error, storageRead, succeeded>>

Pass ==
    \/ Load
    \/ ExtractTrades
    \/ ExtractValue
    \/ ComputeReturns
    \/ BuildOhlc
    \/ ComposePrice
    \/ PrepareMarkers
    \/ EntryMarkers
    \/ ExitMarkers
    \/ ShowPrice
    \/ ShowCumulativeReturns
    \/ ShowDrawdowns
    \/ ShowMetrics

Next ==
    \/ \E s \in Strategies : Rerun(s)
    \/ Pass

---------------------------------------------------------------------------
(* The states the process starts in *)

AttrNames == {"trades", "value"} \cup {PriceAttrs[i] : i \in DOMAIN PriceAttrs}

MarkerColumns == EntryColumns \cup ExitColumns

ScenarioValue == <<100, 110, 99>>

Base == Portfolio(AttrNames, ScenarioValue, MarkerColumns, FewTrades)

\* one artifact of D under the first strategy's path, one of Others under
\* each of the other two
DiskLayouts(D, Others) ==
    {[p \in Paths |-> IF p = PathOf(strategies[1]) THEN a ELSE b] :
        a \in D, b \in Others}

InitWith(layouts) ==
    /\ disk \in layouts
    /\ cache = [s \in Strategies |-> NoEntry]
    /\ pc = "idle"
    /\ selected = strategies[1]
    /\ bound = {}
    /\ pf = NoEntry
    /\ trades = NoTable
    /\ value = <<>>
    /\ returns = <<>>
    /\ ohlc = NoFrame
    /\ fig_price = <<>>
    /\ has_entry = FALSE
    /\ has_exit = FALSE
    /\ n = 0
    /\ step = 0
    /\ tsub = NoTable
    /\ shown = <<>>
    /\ error = NoError
    /\ storageRead = FALSE
    /\ succeeded = {}

\* whole passes: portfolios that lack an attribute, a value or marker columns,
\* or that have no artifact at all
PassPortfolios ==
    {Portfolio(present, val, columns, FewTrades) :
        present \in {AttrNames, AttrNames \ {"value"}, AttrNames \ {"trades"},
                     {"trades", "value"}, {"trades", "close"}},
        val \in {ScenarioValue, <<>>},
        columns \in SUBSET MarkerColumns}

Init == InitWith(DiskLayouts({Absent, Corrupt} \cup PassPortfolios,
                             {Absent, Corrupt, Base}))

Spec == Init /\ [][Next]_vars

\* the cache across passes: the four kinds of artifact under every path, and a
\* backtest job that rewrites them while the dashboard runs
OtherPortfolio == Portfolio({"trades", "value"}, <<0, 110>>, EntryColumns, FewTrades)

CacheArtifacts == {Absent, Corrupt, Base, OtherPortfolio}

InitCache == InitWith([Paths -> CacheArtifacts])

NextCache ==
    \/ Next
    \/ \E p \in Paths, a \in CacheArtifacts : ReplaceArtifact(p, a)

SpecCache == InitCache /\ [][NextCache]_vars

\* the extractor: every combination of price attributes, every short value
\* series
Values == {-100, 0, 99, 100, 110}

ValueSeries == UNION {[1..k -> Values] : k \in 0..MaxLen}

PricePortfolios ==
    {Portfolio({"trades", "value"} \cup prices, val, MarkerColumns, FewTrades) :
        prices \in SUBSET {PriceAttrs[i] : i \in DOMAIN PriceAttrs},
        val \in ValueSeries}

InitExtract == InitWith(DiskLayouts(PricePortfolios, {Absent}))

SpecExtract == InitExtract /\ [][Next]_vars

\* the markers: every set of marker columns, trade logs around every multiple
\* of the threshold
TradeCounts ==
    {c \in 0..MaxTrades :
        \/ c = 3000
        \/ \E m \in 0..(MaxTrades \div MarkerThreshold) :
              Abs(c - m * MarkerThreshold) <= Window}

TradePortfolios ==
    {Portfolio(AttrNames, ScenarioValue, columns, count) :
        columns \in SUBSET MarkerColumns, count \in TradeCounts}

InitMarkers == InitWith(DiskLayouts(TradePortfolios, {Absent}))

SpecMarkers == InitMarkers /\ [][Next]_vars

---------------------------------------------------------------------------
(* What the properties below read off a state *)

\* how far the running (or last) pass got: the index of the line it is at,
\* or of the line that raised
Position ==
    CASE pc = "idle" -> 0
      [] pc = "done" -> Len(Script) + 1
      [] pc = "aborted" -> IndexOf(error.at)
      [] OTHER -> IndexOf(pc)

\* the pass has executed this line and the line did not raise
Reached(line) == Position > IndexOf(line)

LoaderLines == {"load"}

ExtractorLines == {"trades", "value", "returns", "ohlc"}

TracesNamed(name) == {i \in DOMAIN fig_price : fig_price[i].name = name}

MarkerTraces == {i \in DOMAIN fig_price : fig_price[i].kind = "markers"}

PriceTraces == {i \in DOMAIN fig_price : fig_price[i].kind \in {"candlestick", "line"}}

ShownCharts == [i \in DOMAIN shown |-> shown[i].chart]

Zero == [num |-> 0, den |-> 1]

CeilDiv(a, b) == (a + b - 1) \div b

---------------------------------------------------------------------------
(* Properties *)

\* C1: the price frame is chosen in strict priority order.  With open, high,
\* low and close all present the frame has the four columns Open, High, Low
\* and Close, each from its attribute; otherwise, with close present, it has
\* the one column Close, from close; otherwise the one column Close, from the
\* equity value.  The frame always has a Close column.
C1_PriceFramePriority ==
    Reached("ohlc") =>
        /\ "Close" \in DOMAIN ohlc
        /\ IF {"open", "high", "low", "close"} \subseteq pf.present
           THEN /\ DOMAIN ohlc = {"Open", "High", "Low", "Close"}
                /\ ohlc["Open"] = pf.prices.open
                /\ ohlc["High"] = pf.prices.high
                /\ ohlc["Low"] = pf.prices.low
                /\ ohlc["Close"] = pf.prices.close
           ELSE IF "close" \in pf.present
           THEN DOMAIN ohlc = {"Close"} /\ ohlc["Close"] = pf.prices.close
           ELSE DOMAIN ohlc = {"Close"} /\ ohlc["Close"] = pf.value

\* a pass over a portfolio with all four price attributes built the
\* four-column frame
C1_Witness ==
    /\ Reached("ohlc")
    /\ {"open", "high", "low", "close"} \subseteq pf.present
    /\ DOMAIN ohlc = {"Open", "High", "Low", "Close"}
    /\ ohlc["Close"] = pf.prices.close

\* C2: for a trade log of length n with at least one marker column pair, the
\* stride is max(1, n // 1200), the rows used for the markers are the rows at
\* positions 0, stride, 2*stride, ... in that order, their number is
\* ceil(n / stride), for n <= 1200 the stride is 1 and the log is used
\* unchanged, and n = 3000 gives stride 2 and 1500 rows in each marker trace.
C2_StrideAndRows ==
    (Reached("markers") /\ (HasEntry(trades) \/ HasExit(trades))) =>
        LET count == Len(trades.rows)
            k == IF count \div 1200 >= 1 THEN count \div 1200 ELSE 1
        IN  /\ n = count
            /\ step = k
            /\ Len(tsub.rows) = CeilDiv(count, k)
            /\ \A j \in DOMAIN tsub.rows : tsub.rows[j] = (j - 1) * k
            /\ tsub.columns = trades.columns
            /\ count <= 1200 => (k = 1 /\ tsub = trades)
            /\ \A i \in MarkerTraces : fig_price[i].rows = tsub.rows
            /\ count = 3000 =>
                  /\ k = 2
                  /\ \A i \in MarkerTraces : Len(fig_price[i].rows) = 1500

\* a completed pass over 3000 trades with both column pairs: stride 2, 1500
\* entry and 1500 exit markers
C2_Witness ==
    /\ pc = "done"
    /\ Len(trades.rows) = 3000
    /\ step = 2
    /\ Cardinality(MarkerTraces) = 2
    /\ \A i \in MarkerTraces : Len(fig_price[i].rows) = 1500

\* C3: a load_portfolio call for strategy s reads storage exactly when no
\* earlier call for s has succeeded.  After a success every later call for s
\* returns the cached object, leaves the cache as it is and reads nothing; a
\* failed call leaves the cache without an entry for s; an entry, once made,
\* never changes.
C3_CacheStep ==
    /\ (pc = "load" /\ pc' # "load") =>
          /\ storageRead' <=> (selected \notin succeeded)
          /\ (selected \in succeeded) =>
                /\ pc' = Following("load")
                /\ pf' = cache[selected]
                /\ cache' = cache
          /\ (pc' = "aborted") =>
                /\ cache'[selected] = NoEntry
                /\ selected \notin succeeded'
          /\ (pc' # "aborted") => pf' = cache'[selected]
    /\ \A s \in Strategies : cache[s] # NoEntry => cache'[s] = cache[s]

C3_CacheReadsOnce == [][C3_CacheStep]_vars

\* a later call answered from the cache although the artifact on disk is no
\* longer the one that was loaded
C3_Witness ==
    /\ pc = Following("load")
    /\ selected \in succeeded
    /\ ~storageRead
    /\ pf = cache[selected]
    /\ disk[PathOf(selected)] # pf

\* C4: a pass whose load or extraction raised has emitted no chart.
C4_NoChartAfterEarlyFailure ==
    (pc = "aborted" /\ error.at \in LoaderLines \cup ExtractorLines) =>
        shown = <<>>

\* a pass over a portfolio without the value attribute stopped at the value
\* line with nothing shown
C4_Witness ==
    /\ pc = "aborted"
    /\ error = [type |-> "AttributeError", at |-> "value"]
    /\ "value" \notin pf.present
    /\ shown = <<>>

\* C5: the entry trace is on the price chart exactly when the log has both
\* entry columns, the exit trace exactly when it has both exit columns, each
\* at most once, and there is no other marker trace.
C5_MarkersIndependent ==
    Reached("exit") =>
        /\ Cardinality(TracesNamed("Entry")) =
              IF {"Entry Index", "Avg Entry Price"} \subseteq trades.columns
              THEN 1 ELSE 0
        /\ Cardinality(TracesNamed("Exit")) =
              IF {"Exit Index", "Avg Exit Price"} \subseteq trades.columns
              THEN 1 ELSE 0
        /\ MarkerTraces = TracesNamed("Entry") \cup TracesNamed("Exit")

\* a log with the entry pair and only one exit column: an entry trace and no
\* exit trace
C5_Witness ==
    /\ Reached("exit")
    /\ trades.columns = {"Entry Index", "Avg Entry Price", "Exit Index"}
    /\ Cardinality(TracesNamed("Entry")) = 1
    /\ TracesNamed("Exit") = {}

\* C6: for a value series whose first element v0 is not zero, returns has the
\* index of value, returns[0] is 0 and returns[i] * v0 = value[i] - v0.
C6_ReturnsNormalized ==
    (Reached("returns") /\ value[1] # 0) =>
        /\ DOMAIN returns = DOMAIN value
        /\ returns[1] = Zero
        /\ \A i \in DOMAIN value :
              /\ returns[i].den > 0
              /\ returns[i].num * value[1] = (value[i] - value[1]) * returns[i].den

\* the scenario: value [100, 110, 99] gives returns [0, 1/10, -1/100]
C6_Witness ==
    /\ Reached("returns")
    /\ value = <<100, 110, 99>>
    /\ returns = <<Zero, [num |-> 1, den |-> 10], [num |-> -1, den |-> 100]>>

\* C7: the price chart has exactly one price trace, its first; it is a
\* candlestick exactly when the frame has Open, High, Low and Close, which is
\* exactly when the portfolio exposes open, high, low and close; otherwise it
\* is a line over the Close column.
C7_CandlestickOrLine ==
    Reached("price") =>
        /\ PriceTraces = {1}
        /\ (fig_price[1].kind = "candlestick") <=>
              ({"Open", "High", "Low", "Close"} \subseteq DOMAIN ohlc)
        /\ (fig_price[1].kind = "candlestick") <=>
              ({"open", "high", "low", "close"} \subseteq pf.present)
        /\ fig_price[1].kind = "candlestick" =>
              /\ fig_price[1].open = ohlc["Open"]
              /\ fig_price[1].high = ohlc["High"]
              /\ fig_price[1].low = ohlc["Low"]
              /\ fig_price[1].close = ohlc["Close"]
        /\ fig_price[1].kind # "candlestick" =>
              /\ fig_price[1].kind = "line"
              /\ fig_price[1].y = ohlc["Close"]

\* a portfolio with close but not open: one line trace over close
C7_Witness ==
    /\ Reached("price")
    /\ "close" \in pf.present
    /\ "open" \notin pf.present
    /\ PriceTraces = {1}
    /\ fig_price[1].kind = "line"
    /\ fig_price[1].y = pf.prices.close

\* C8 as stated: whenever n exceeds 1200 the log is subsampled, and no marker
\* trace has more than 1200 rows.
C8_AtMostThreshold ==
    (Reached("markers") /\ "tsub" \in bound) =>
        /\ Len(trades.rows) > 1200 => Len(tsub.rows) < Len(trades.rows)
        /\ \A i \in MarkerTraces : Len(fig_price[i].rows) <= 1200

\* C8 as amended: the log is subsampled exactly when n is at least 2400, and
\* no marker trace has more than 2399 rows.
C8_BelowTwiceThreshold ==
    (Reached("markers") /\ "tsub" \in bound) =>
        /\ (Len(tsub.rows) < Len(trades.rows)) <=> (Len(trades.rows) >= 2400)
        /\ Len(tsub.rows) <= 2399
        /\ \A i \in MarkerTraces : Len(fig_price[i].rows) <= 2399

\* 2399 trades: stride 1, and a marker trace of 2399 rows
C8_Witness ==
    /\ Reached("exit")
    /\ Len(trades.rows) = 2399
    /\ step = 1
    /\ MarkerTraces # {}
    /\ \A i \in MarkerTraces : Len(fig_price[i].rows) = 2399

\* C9 as stated: a pass that completes has shown the three charts in order,
\* and a pass that aborts has shown none.
C9_AllOrNothing ==
    /\ pc = "done" => ShownCharts = <<"price", "cumulative_returns", "drawdowns">>
    /\ pc = "aborted" => shown = <<>>

\* C9 as amended: a pass that completes has shown the three charts in order,
\* and a pass that aborts has shown the charts that come before the line that
\* raised, in that order: none up to the price chart's own display, the price
\* chart when the cumulative-returns routine raises, price and cumulative
\* returns when the drawdown routine raises, all three when the metrics
\* panel raises.
C9_ChartsBeforeFailure ==
    /\ pc = "done" => ShownCharts = <<"price", "cumulative_returns", "drawdowns">>
    /\ pc = "aborted" =>
          ShownCharts =
              CASE error.at = "metrics" ->
                      <<"price", "cumulative_returns", "drawdowns">>
                [] error.at = "drawdowns" -> <<"price", "cumulative_returns">>
                [] error.at = "cumulative_returns" -> <<"price">>
                [] OTHER -> <<>>

\* the cumulative-returns routine raised after the price chart was shown
C9_Witness ==
    /\ pc = "aborted"
    /\ error.at = "cumulative_returns"
    /\ ShownCharts = <<"price">>

\* C10: no pass reads tsub before it is assigned.  No line raises NameError,
\* every marker trace was built with tsub assigned, tsub is assigned when a
\* marker line is about to read it, and with neither column pair tsub is
\* neither assigned nor read.
C10_TsubAssignedBeforeRead ==
    /\ error.type # "NameError"
    /\ MarkerTraces # {} => "tsub" \in bound
    /\ (pc = "entry" /\ has_entry) => "tsub" \in bound
    /\ (pc = "exit" /\ has_exit) => "tsub" \in bound
    /\ (Reached("markers") /\ ~HasEntry(trades) /\ ~HasExit(trades)) =>
          /\ "tsub" \notin bound
          /\ MarkerTraces = {}

\* only the exit pair: tsub was assigned under the guard and the exit line
\* read it
C10_Witness ==
    /\ Reached("exit")
    /\ ~has_entry
    /\ has_exit
    /\ "tsub" \in bound
    /\ Cardinality(MarkerTraces) = 1

====
